---- MODULE Spec2Model ----
(***************************************************************************)
(* Model of the Recognition Gateway of src/api.py: the POST /recognize     *)
(* handler, run by a pool of worker threads (src/wsgi.py) that share the   *)
(* working directory and therefore the file TEMP_IMAGE.                    *)
(*                                                                         *)
(* Strings the handler takes apart are sequences of tokens, so that        *)
(* split, basename, splitext and the substring tests are computed.         *)
(* Distances are integers in units of 1/Scale; confidences are integers in *)
(* tenths of a percent point (the one decimal round(..., 1) keeps).        *)
(***************************************************************************)
EXTENDS Integers, Sequences, FiniteSets

VARIABLES
    pc,        \* per request: position in recognize()
    body,      \* per request: what request.get_json(silent=True) returned
    file,      \* the file TEMP_IMAGE in the shared working directory
    results,   \* per request: outcome of the DeepFace.find call
    raised,    \* per request: os.remove inside _cleanup raised
    df,        \* per request: what pd.read_excel returned
    resp,      \* per request: the HTTP response sent
    distance,  \* scoring specification: the distance scored
    scored     \* scoring specification: the (confidence, matched) computed

vars == <<pc, body, file, results, raised, df, resp, distance, scored>>

reqVars == <<pc, body, file, results, raised, df, resp>>

(***************************************************************************)
(* Bounds.                                                                 *)
(***************************************************************************)
\* Number of /recognize requests in flight together (worker threads).
NumRequests == 2

\* How far below 0 and above 2 (the range of a cosine distance) the scored
\* distances reach, in units of 1/Scale.
DistSlack == 300

\* Resolution of a distance: 1/Scale.
Scale == 10 ^ 4

Requests == 1 .. NumRequests

Distances == (0 - DistSlack) .. (2 * Scale + DistSlack)

(***************************************************************************)
(* Configuration (src/api.py, CONFIG block).                               *)
(***************************************************************************)
\* CONFIDENCE_THRESHOLD = 0.6, in units of 1/Scale.
CONFIDENCE_THRESHOLD == (6 * Scale) \div 10

\* TEMP_IMAGE = "temp_query.jpg": one fixed name, the same for every request.
TEMP_IMAGE == "temp_query.jpg"

(***************************************************************************)
(* Request bodies.  A payload is the token sequence of the "image" string: *)
(* an optional data-URL prefix, a comma, a base64 blob.                    *)
(***************************************************************************)
Images == 1 .. 5

NoImage == 0

\* base64 blobs: "B1".."B5" encode the bytes of images 1..5, "Btxt" encodes
\* bytes that are no image, "Bpad" is base64 with incorrect padding.
Blob(i) ==
    CASE i = 1 -> "B1" [] i = 2 -> "B2" [] i = 3 -> "B3"
      [] i = 4 -> "B4" [] i = 5 -> "B5"

Prefix == "data:image/jpeg;base64"

\* data: "none" get_json gave None (no body, not JSON); "empty" {};
\* "list" a JSON array [1]; "object" a non-empty JSON object.
\* image: "absent" no "image" key; "number" a non-zero number; "string".
Bodies ==
    {[data |-> "none",   image |-> "absent", payload |-> <<>>],
     [data |-> "empty",  image |-> "absent", payload |-> <<>>],
     [data |-> "list",   image |-> "absent", payload |-> <<>>],
     [data |-> "object", image |-> "absent", payload |-> <<>>],
     [data |-> "object", image |-> "string", payload |-> <<>>],
     [data |-> "object", image |-> "number", payload |-> <<>>],
     [data |-> "object", image |-> "string", payload |-> <<"Bpad">>],
     [data |-> "object", image |-> "string", payload |-> <<Prefix, ",", "Btxt">>],
     [data |-> "object", image |-> "string", payload |-> <<Prefix, ",", "B4">>]}
    \cup {[data |-> "object", image |-> "string", payload |-> <<Blob(i)>>] :
             i \in Images}

NoBody == [data |-> "unread", image |-> "absent", payload |-> <<>>]

(***************************************************************************)
(* Step 2 of recognize(): decoding the payload (lines 148-159).            *)
(***************************************************************************)
\* Index of the first "," of a payload, 0 when there is none.
FirstComma(p) ==
    IF \E i \in 1 .. Len(p) : p[i] = ","
        THEN CHOOSE i \in 1 .. Len(p) :
                 p[i] = "," /\ \A j \in 1 .. (i - 1) : p[j] # ","
        ELSE 0

\* if "," in image_b64: image_b64 = image_b64.split(",", 1)[1]
StripPrefix(p) ==
    IF FirstComma(p) = 0 THEN p ELSE SubSeq(p, FirstComma(p) + 1, Len(p))

\* base64.b64decode: the bytes, or "error" (binascii.Error).
B64Decode(s) ==
    IF s = <<>> THEN ""
    ELSE IF Len(s) # 1 THEN "error"
    ELSE CASE s[1] = "B1" -> "J1" [] s[1] = "B2" -> "J2" [] s[1] = "B3" -> "J3"
           [] s[1] = "B4" -> "J4" [] s[1] = "B5" -> "J5"
           [] s[1] = "Btxt" -> "txt"
           [] OTHER -> "error"

\* Image.open(io.BytesIO(img_bytes)).convert("RGB"): the image, or NoImage
\* when PIL raises (UnidentifiedImageError).
ImageOpen(bytes) ==
    CASE bytes = "J1" -> 1 [] bytes = "J2" -> 2 [] bytes = "J3" -> 3
      [] bytes = "J4" -> 4 [] bytes = "J5" -> 5
      [] OTHER -> NoImage

\* The image a payload decodes to, NoImage when any step of the try raises.
DecodeImage(p) ==
    IF B64Decode(StripPrefix(p)) = "error"
        THEN NoImage
        ELSE ImageOpen(B64Decode(StripPrefix(p)))

(***************************************************************************)
(* The file TEMP_IMAGE.  `by` is the request whose image.save wrote it.    *)
(***************************************************************************)
NoFile == [name |-> TEMP_IMAGE, exists |-> FALSE, img |-> NoImage, by |-> 0]

\* image.save(TEMP_IMAGE) by request r: creates or overwrites the one file.
Save(r, img) == [name |-> TEMP_IMAGE, exists |-> TRUE, img |-> img, by |-> r]

(***************************************************************************)
(* External matcher: DeepFace.find(img_path = TEMP_IMAGE, ...) as a        *)
(* function of what the file holds when it is read.                        *)
(***************************************************************************)
NoResults == [kind |-> "none", msg |-> <<>>, frames |-> <<>>, img |-> NoImage]

Raise(msg, img) == [kind |-> "raise", msg |-> msg, frames |-> <<>>, img |-> img]

Frames(fr, img) == [kind |-> "frames", msg |-> <<>>, frames |-> fr, img |-> img]

Row(identity, d) == [identity |-> identity, distance |-> d]

DeepFaceFind(f) ==
    IF ~f.exists
        THEN Raise(<<"Confirm", "that", TEMP_IMAGE, "exists">>, NoImage)
    ELSE CASE f.img = 1 ->
                  Raise(<<"Face", "could", "not", "be", "detected", "in",
                          TEMP_IMAGE>>, 1)
           [] f.img = 2 ->
                  Raise(<<"Unsupported", "image", "shape">>, 2)
           [] f.img = 3 ->
                  Frames(<< <<>> >>, 3)
           [] f.img = 4 ->
                  Frames(<< <<Row(<<"data", "/", "001", ".jpg">>, 2500),
                              Row(<<"data", "/", "007", ".png">>, 5200)>> >>, 4)
           [] f.img = 5 ->
                  Frames(<< <<Row(<<"data", "/", "007", ".png">>, 4004)>> >>, 5)

\* pat in str(e): pat is a contiguous part of msg.
Contains(msg, pat) ==
    \E i \in 0 .. (Len(msg) - Len(pat)) : SubSeq(msg, i + 1, i + Len(pat)) = pat

\* "Face could not be detected" in str(e) or "No face" in str(e)
IsNoFace(msg) ==
    \/ Contains(msg, <<"Face", "could", "not", "be", "detected">>)
    \/ Contains(msg, <<"No", "face">>)

\* not results or results[0].empty
IsEmptyResult(res) == Len(res.frames) = 0 \/ Len(res.frames[1]) = 0

\* best = results[0].iloc[0]
Best(res) == res.frames[1][1]

(***************************************************************************)
(* score: lines 194-196.                                                   *)
(***************************************************************************)
\* Units of 1/Scale in one tenth of a percent point.
TenthUnits == Scale \div 1000

\* round(x, 1) of a float: the nearest tenth; a decimal tie is not exactly
\* representable in binary, so the float lies on either side of it.
Round1(x) ==
    LET q == x \div TenthUnits
        m == x % TenthUnits
    IN  IF 2 * m < TenthUnits THEN {q}
        ELSE IF 2 * m > TenthUnits THEN {q + 1}
        ELSE {q, q + 1}

\* confidence = round((1 - distance) * 100, 1), in tenths
Confidence(d) == Round1(Scale - d)

\* Variant: the flag taken from the rounded confidence,
\* confidence / 100 >= CONFIDENCE_THRESHOLD.
MatchedOnRounded(d) ==
    \A c \in Confidence(d) : c * TenthUnits >= CONFIDENCE_THRESHOLD

\* matched = (1 - distance) >= CONFIDENCE_THRESHOLD
Matched(d) == (Scale - d) >= CONFIDENCE_THRESHOLD

Score(d) == {[confidence |-> c, matched |-> Matched(d)] : c \in Confidence(d)}

(***************************************************************************)
(* person_id: line 199.                                                    *)
(***************************************************************************)
LastSlash(p) ==
    IF \E i \in 1 .. Len(p) : p[i] = "/"
        THEN CHOOSE i \in 1 .. Len(p) :
                 p[i] = "/" /\ \A j \in (i + 1) .. Len(p) : p[j] # "/"
        ELSE 0

\* os.path.basename
Basename(p) == SubSeq(p, LastSlash(p) + 1, Len(p))

Extensions == {".jpg", ".png", ".jpeg"}

\* os.path.splitext(b)[0]: b without its last extension
SplitextRoot(b) ==
    IF Len(b) > 1 /\ b[Len(b)] \in Extensions THEN SubSeq(b, 1, Len(b) - 1) ELSE b

PersonId(identity) == SplitextRoot(Basename(identity))

(***************************************************************************)
(* resolve_name: lines 203-213.                                            *)
(***************************************************************************)
EXCEL_PATH == "sheet.xlsx"

Text(s) == [t |-> "text", s |-> <<s>>, n |-> 0]

Number(n) == [t |-> "int", s |-> <<>>, n |-> n]

\* str() of an integer cell: its decimal digits, without leading zeros.
Decimal(n) ==
    CASE n = 1 -> <<"1">> [] n = 7 -> <<"7">> [] OTHER -> <<"?">>

\* df["Inmate Id"].astype(str)
AsTypeStr(cell) == IF cell.t = "int" THEN Decimal(cell.n) ELSE cell.s

NotRead == [path |-> "", readable |-> FALSE, rows |-> <<>>]

\* What pd.read_excel(EXCEL_PATH) can find: an unreadable file, or a table.
Sheets ==
    {[path |-> EXCEL_PATH, readable |-> FALSE, rows |-> <<>>],
     [path |-> EXCEL_PATH, readable |-> TRUE,
      rows |-> <<[id |-> Number(7), name |-> "Ravi"],
                 [id |-> Text("001"), name |-> "Asha"],
                 [id |-> Text("001"), name |-> "Meena"]>>]}

\* row = df[df["Inmate Id"].astype(str) == str(person_id)]: the row indices
MatchingRows(sheet, person_id) ==
    {i \in 1 .. Len(sheet.rows) : AsTypeStr(sheet.rows[i].id) = person_id}

\* person_name after the try: <<>> is None
ResolveName(sheet, person_id) ==
    IF ~sheet.readable \/ MatchingRows(sheet, person_id) = {}
        THEN <<>>
        ELSE LET first == CHOOSE i \in MatchingRows(sheet, person_id) :
                              \A j \in MatchingRows(sheet, person_id) : i <= j
             IN  <<sheet.rows[first].name>>

\* f"ID: {person_id} (name not found)"
Fallback(person_id) == <<"ID: ">> \o person_id \o <<" (name not found)">>

\* person_name or f"ID: {person_id} (name not found)"
NameOrFallback(name, person_id) ==
    IF name # <<>> THEN name ELSE Fallback(person_id)

(***************************************************************************)
(* Responses.  `keys` are the keys of the JSON object sent, `nulls` those  *)
(* whose value is null; a field outside `keys` holds its default.          *)
(***************************************************************************)
NoResponse ==
    [status |-> 0, json |-> FALSE, keys |-> {}, nulls |-> {}, match |-> FALSE,
     confidence |-> 0, person_id |-> <<>>, person_name |-> <<>>,
     message |-> "", distance |-> 0, error |-> <<>>]

\* jsonify({"error": ...}), status
ErrorResponse(status, error) ==
    [NoResponse EXCEPT !.status = status, !.json = TRUE, !.keys = {"error"},
                       !.error = error]

\* What Flask sends when the view raises: 500 with an HTML page, no JSON.
UnhandledResponse == [NoResponse EXCEPT !.status = 500]

\* lines 138, 143, 159, 182
NoJsonBody == ErrorResponse(400, <<"No JSON body received">>)

ImageFieldMissing == ErrorResponse(400, <<"'image' field missing">>)

DecodeError == ErrorResponse(400, <<"Could not decode image: ", "str(e)">>)

MatcherFault(msg) == ErrorResponse(500, <<"DeepFace error: ">> \o msg)

\* jsonify({"match": False, "confidence": 0, "person_id": None,
\*          "person_name": None, "message": message})
NegativeResponse(message) ==
    [NoResponse EXCEPT !.status = 200, !.json = TRUE,
                       !.keys = {"match", "confidence", "person_id",
                                 "person_name", "message"},
                       !.nulls = {"person_id", "person_name"},
                       !.message = message]

NoFace == NegativeResponse("No face detected in image")

NoMatch == NegativeResponse("No match found in database")

\* lines 215-221
MatchResponse(sc, person_id, person_name, d) ==
    [NoResponse EXCEPT !.status = 200, !.json = TRUE,
                       !.keys = {"match", "confidence", "person_id",
                                 "person_name", "distance"},
                       !.match = sc.matched, !.confidence = sc.confidence,
                       !.person_id = person_id,
                       !.person_name = NameOrFallback(person_name, person_id),
                       !.distance = d]

(***************************************************************************)
(* recognize(), one action per step that other requests can observe.       *)
(***************************************************************************)
Finish(r, response) ==
    /\ resp' = [resp EXCEPT ![r] = response]
    /\ pc' = [pc EXCEPT ![r] = "done"]

\* The response of step 1 for body b; NoResponse when step 1 lets b pass.
\* data.get on a JSON array, and len() of a number, raise outside any try.
ParseOutcome(b) ==
    IF b.data \in {"none", "empty"} THEN NoJsonBody
    ELSE IF b.data # "object" THEN UnhandledResponse
    ELSE IF b.image = "absent" \/ (b.image = "string" /\ b.payload = <<>>)
        THEN ImageFieldMissing
    ELSE IF b.image # "string" THEN UnhandledResponse
    ELSE NoResponse

\* Step 1, lines 134-145: parse the incoming JSON.
ParseJSON(r) ==
    /\ pc[r] = "idle"
    /\ \E b \in Bodies :
          /\ body' = [body EXCEPT ![r] = b]
          /\ IF ParseOutcome(b) = NoResponse
                THEN /\ pc' = [pc EXCEPT ![r] = "decode"]
                     /\ resp' = resp
                ELSE Finish(r, ParseOutcome(b))
    /\ UNCHANGED <<file, results, raised, df, distance, scored>>

\* Step 2, lines 148-159: decode and image.save(TEMP_IMAGE).
Decode(r) ==
    /\ pc[r] = "decode"
    /\ IF DecodeImage(body[r].payload) = NoImage
          THEN /\ Finish(r, DecodeError)
               /\ file' = file
          ELSE /\ file' = Save(r, DecodeImage(body[r].payload))
               /\ pc' = [pc EXCEPT ![r] = "find"]
               /\ resp' = resp
    /\ UNCHANGED <<body, results, raised, df, distance, scored>>

\* Step 3, lines 162-175: DeepFace.find reads TEMP_IMAGE as it is now.
Find(r) ==
    /\ pc[r] = "find"
    /\ results' = [results EXCEPT ![r] = DeepFaceFind(file)]
    /\ pc' = [pc EXCEPT ![r] = "exists"]
    /\ UNCHANGED <<body, file, raised, df, resp, distance, scored>>

\* Variant: the except branch returns without calling _cleanup().
CleanupSkippedOnException(r) ==
    /\ pc[r] = "exists"
    /\ pc' = [pc EXCEPT ![r] = IF file.exists /\ results[r].kind # "raise"
                                  THEN "remove"
                                  ELSE "respond"]
    /\ UNCHANGED <<body, file, results, raised, df, resp, distance, scored>>

\* _cleanup(), line 225: if os.path.exists(TEMP_IMAGE)
CleanupExists(r) ==
    /\ pc[r] = "exists"
    /\ pc' = [pc EXCEPT ![r] = IF file.exists THEN "remove" ELSE "respond"]
    /\ UNCHANGED <<body, file, results, raised, df, resp, distance, scored>>

\* _cleanup(), line 226: os.remove(TEMP_IMAGE) raises FileNotFoundError when
\* the file is gone; nothing catches it (lines 176 and 184 are outside try).
CleanupRemove(r) ==
    /\ pc[r] = "remove"
    /\ IF file.exists
          THEN /\ file' = NoFile
               /\ pc' = [pc EXCEPT ![r] = "respond"]
               /\ UNCHANGED <<raised, resp>>
          ELSE /\ raised' = [raised EXCEPT ![r] = TRUE]
               /\ Finish(r, UnhandledResponse)
               /\ file' = file
    /\ UNCHANGED <<body, results, df, distance, scored>>

\* except branch after _cleanup(), lines 177-182.
RespondException(r) ==
    /\ pc[r] = "respond"
    /\ results[r].kind = "raise"
    /\ Finish(r, IF IsNoFace(results[r].msg)
                    THEN NoFace
                    ELSE MatcherFault(results[r].msg))
    /\ UNCHANGED <<body, file, results, raised, df, distance, scored>>

\* Step 4, lines 187-191: empty result.
RespondNoMatch(r) ==
    /\ pc[r] = "respond"
    /\ results[r].kind = "frames"
    /\ IsEmptyResult(results[r])
    /\ Finish(r, NoMatch)
    /\ UNCHANGED <<body, file, results, raised, df, distance, scored>>

\* Steps 4-5, lines 193-221: score, person_id, name lookup, response.
RespondMatch(r) ==
    /\ pc[r] = "respond"
    /\ results[r].kind = "frames"
    /\ ~IsEmptyResult(results[r])
    /\ \E sheet \in Sheets, sc \in Score(Best(results[r]).distance) :
          /\ df' = [df EXCEPT ![r] = sheet]
          /\ Finish(r, MatchResponse(
                 sc,
                 PersonId(Best(results[r]).identity),
                 ResolveName(sheet, PersonId(Best(results[r]).identity)),
                 Best(results[r]).distance))
    /\ UNCHANGED <<body, file, results, raised, distance, scored>>

NoScore == [confidence |-> 0, matched |-> FALSE, done |-> FALSE]

Init ==
    /\ pc = [r \in Requests |-> "idle"]
    /\ body = [r \in Requests |-> NoBody]
    /\ file = NoFile
    /\ results = [r \in Requests |-> NoResults]
    /\ raised = [r \in Requests |-> FALSE]
    /\ df = [r \in Requests |-> NotRead]
    /\ resp = [r \in Requests |-> NoResponse]
    /\ distance = 0
    /\ scored = NoScore

Next ==
    \E r \in Requests :
        \/ ParseJSON(r)
        \/ Decode(r)
        \/ Find(r)
        \/ CleanupExists(r)
        \/ CleanupRemove(r)
        \/ RespondException(r)
        \/ RespondNoMatch(r)
        \/ RespondMatch(r)

Spec == Init /\ [][Next]_vars

(***************************************************************************)
(* Scoring specification: score() applied to every distance of Distances.  *)
(***************************************************************************)
ScoreInit ==
    /\ pc = [r \in Requests |-> "idle"]
    /\ body = [r \in Requests |-> NoBody]
    /\ file = NoFile
    /\ results = [r \in Requests |-> NoResults]
    /\ raised = [r \in Requests |-> FALSE]
    /\ df = [r \in Requests |-> NotRead]
    /\ resp = [r \in Requests |-> NoResponse]
    /\ distance \in Distances
    /\ scored = NoScore

ScoreStep ==
    /\ ~scored.done
    /\ \E sc \in Score(distance) :
          scored' = [confidence |-> sc.confidence, matched |-> sc.matched,
                     done |-> TRUE]
    /\ UNCHANGED <<reqVars, distance>>

ScoreNext == ScoreStep

ScoreSpec == ScoreInit /\ [][ScoreNext]_vars

(***************************************************************************)
(* Vocabulary of the properties.                                           *)
(***************************************************************************)
Done(r) == pc[r] = "done"

\* The request's payload passed step 1 and decodes to a valid image.
DecodedOK(r) ==
    /\ body[r] # NoBody
    /\ ParseOutcome(body[r]) = NoResponse
    /\ DecodeImage(body[r].payload) # NoImage

\* The matcher ran for the request.
MatcherRan(r) == results[r].kind # "none"

\* The matcher returned a non-empty result to the request.
HasBest(r) == results[r].kind = "frames" /\ ~IsEmptyResult(results[r])

\* The responses lines 177-221 prescribe for a matcher outcome: the
\* request's primary response.
PrimaryResponses(res) ==
    IF res.kind = "raise"
        THEN {IF IsNoFace(res.msg) THEN NoFace ELSE MatcherFault(res.msg)}
    ELSE IF IsEmptyResult(res)
        THEN {NoMatch}
    ELSE {MatchResponse(sc, PersonId(Best(res).identity),
                        ResolveName(sheet, PersonId(Best(res).identity)),
                        Best(res).distance) :
              sheet \in Sheets, sc \in Score(Best(res).distance)}

\* The responses the request gets when it runs alone.
AloneResponses(r) ==
    PrimaryResponses(DeepFaceFind(Save(r, DecodeImage(body[r].payload))))

\* c (tenths) is a nearest tenth of (1 - d) * 100.
NearestTenth(c, d) ==
    /\ 2 * (c * TenthUnits - (Scale - d)) <= TenthUnits
    /\ 2 * ((Scale - d) - c * TenthUnits) <= TenthUnits

\* The threshold as a confidence in tenths: 60.0.
ThresholdTenths == CONFIDENCE_THRESHOLD \div TenthUnits

(***************************************************************************)
(* C1.  Two concurrent requests with different images each keep their own  *)
(* temp artifact: the matcher a request invokes reads exactly the image    *)
(* that request decoded, and the request's response is one it produces     *)
(* when it runs alone.                                                     *)
(***************************************************************************)
C1_IsolatedArtifacts ==
    \A r \in Requests :
        /\ MatcherRan(r) => results[r].img = DecodeImage(body[r].payload)
        /\ (Done(r) /\ DecodedOK(r)) => resp[r] \in AloneResponses(r)

(***************************************************************************)
(* C2.  When a request whose payload decoded to a valid image has its      *)
(* response, the temp file that request wrote is gone, on every exit path; *)
(* once every request has completed no temp file exists.                   *)
(***************************************************************************)
C2_TempFileRemoved ==
    /\ \A r \in Requests :
           (Done(r) /\ DecodedOK(r)) => ~(file.exists /\ file.by = r)
    /\ (\A r \in Requests : Done(r)) => ~file.exists

\* Every request decoded an image and completed, one through the matcher's
\* exception path and one through a match with the name lookup.
C2_Witness ==
    /\ \A r \in Requests : Done(r) /\ DecodedOK(r)
    /\ \E r \in Requests : results[r].kind = "raise" /\ resp[r].json
    /\ \E r \in Requests : HasBest(r) /\ df[r] # NotRead

(***************************************************************************)
(* C3.  Cleanup never fails the request: when removing the temp file       *)
(* raises, the request still returns its primary response.                 *)
(***************************************************************************)
C3_CleanupNeverFails ==
    \A r \in Requests :
        (Done(r) /\ raised[r]) => resp[r] \in PrimaryResponses(results[r])

\* One of the six JSON outcomes of the per-request state machine.
IsTerminalOutcome(x) ==
    /\ x.json
    /\ \/ x \in {NoJsonBody, ImageFieldMissing, DecodeError, NoFace, NoMatch}
       \/ x.status = 500 /\ x.keys = {"error"}
       \/ x.status = 200 /\ "distance" \in x.keys

(***************************************************************************)
(* C4.  Every request ends in exactly one JSON response, one of BadRequest *)
(* 400, DecodeError 400, NoFace 200, MatcherFault 500, NoMatch 200 or the  *)
(* match object 200, and no stage is entered before its predecessor        *)
(* succeeded.                                                              *)
(***************************************************************************)
C4_OneJsonResponse ==
    \A r \in Requests :
        /\ Done(r) => IsTerminalOutcome(resp[r])
        /\ ~Done(r) => resp[r] = NoResponse
        /\ MatcherRan(r) => DecodedOK(r)
        /\ df[r] # NotRead => HasBest(r)

(***************************************************************************)
(* C5.  For every non-empty matcher result with top-row distance d the     *)
(* response carries confidence = (1 - d) * 100 rounded to one decimal,     *)
(* match = ((1 - d) >= 0.6) and distance = d, unclamped.                   *)
(***************************************************************************)
C5_ScoreInResponse ==
    \A r \in Requests :
        (Done(r) /\ HasBest(r)) =>
            /\ {"confidence", "match", "distance"} \subseteq resp[r].keys
            /\ NearestTenth(resp[r].confidence, Best(results[r]).distance)
            /\ resp[r].match
                   = (Scale - Best(results[r]).distance >= CONFIDENCE_THRESHOLD)
            /\ resp[r].distance = Best(results[r]).distance

(***************************************************************************)
(* C6.  Three-way split of the matcher step: a no-face exception gives 200 *)
(* with exactly the no-face object, any other exception gives 500 with an  *)
(* error message, an absent or empty result gives 200 with exactly the     *)
(* no-match object, and only a non-empty result is scored.                 *)
(***************************************************************************)
C6_ThreeWaySplit ==
    \A r \in Requests :
        Done(r) =>
            /\ (results[r].kind = "raise" /\ IsNoFace(results[r].msg))
                   => resp[r] = NoFace
            /\ (results[r].kind = "raise" /\ ~IsNoFace(results[r].msg))
                   => (resp[r].status = 500 /\ resp[r].json
                       /\ resp[r].keys = {"error"})
            /\ (results[r].kind = "frames" /\ IsEmptyResult(results[r]))
                   => resp[r] = NoMatch
            /\ "distance" \in resp[r].keys => HasBest(r)

(***************************************************************************)
(* C7.  Whenever the matcher returns a non-empty result the response is    *)
(* 200 with person_id taken from the top entry's file name and person_name *)
(* the first table row with that identifier, or the fallback when no row   *)
(* matches or the table cannot be read.                                    *)
(***************************************************************************)
C7_NameResolution ==
    \A r \in Requests :
        (Done(r) /\ HasBest(r)) =>
            LET id == PersonId(Best(results[r]).identity)
            IN  /\ resp[r].status = 200 /\ resp[r].json
                /\ resp[r].person_id = id
                /\ resp[r].person_name \in
                       {NameOrFallback(ResolveName(sheet, id), id) :
                            sheet \in Sheets}

\* The body is missing, not JSON or empty, or has no non-empty image field.
LacksImage(b) ==
    \/ b.data \in {"none", "empty", "list"}
    \/ b.data = "object" /\ b.image = "absent"
    \/ b.data = "object" /\ b.image = "string" /\ b.payload = <<>>

(***************************************************************************)
(* C8.  A request whose body is missing, not JSON or empty, or whose JSON  *)
(* lacks a non-empty image field, is answered 400 with an error message    *)
(* before any decoding: the matcher and the lookup never run for it.       *)
(***************************************************************************)
C8_BadRequest ==
    \A r \in Requests :
        (Done(r) /\ LacksImage(body[r])) =>
            /\ resp[r].status = 400 /\ resp[r].json /\ resp[r].keys = {"error"}
            /\ (body[r].data = "object") => resp[r] = ImageFieldMissing
            /\ ~MatcherRan(r) /\ df[r] = NotRead

(***************************************************************************)
(* C9.  With threshold 0.6 the match flag is true exactly when the         *)
(* reported (rounded) confidence is at least 60.0.                         *)
(***************************************************************************)
C9_MatchIffConfidence60 ==
    scored.done => (scored.matched <=> scored.confidence >= ThresholdTenths)

\* C9 as amended: the match flag is true exactly when the unrounded
\* (1 - distance) reaches 0.6; a true flag implies a reported confidence of
\* at least 60.0 and a reported confidence above 60.0 implies a true flag.
C9_MatchIffUnrounded60 ==
    scored.done =>
        /\ scored.matched <=> (Scale - distance) * 10 >= 6 * Scale
        /\ scored.matched => scored.confidence >= ThresholdTenths
        /\ scored.confidence > ThresholdTenths => scored.matched

\* A distance just above 0.4: reported confidence 60.0, match false.
C9_Witness ==
    scored.done /\ ~scored.matched /\ scored.confidence = ThresholdTenths

(***************************************************************************)
(* C10.  The lookup and the response assembly run for every non-empty      *)
(* matcher result whatever the threshold: a best candidate below it yields *)
(* 200 with match = false, its person_id, its person_name, its confidence  *)
(* and its distance, and no message.                                       *)
(***************************************************************************)
C10_BelowThresholdStillAssembled ==
    \A r \in Requests :
        (Done(r) /\ HasBest(r)
            /\ Scale - Best(results[r]).distance < CONFIDENCE_THRESHOLD) =>
            /\ resp[r].status = 200 /\ resp[r].json
            /\ resp[r].keys = {"match", "confidence", "person_id",
                               "person_name", "distance"}
            /\ resp[r].nulls = {}
            /\ ~resp[r].match
            /\ resp[r].person_id = PersonId(Best(results[r]).identity)
            /\ resp[r].confidence # 0
            /\ df[r] # NotRead

(***************************************************************************)
(* What holds of the responses the handler itself returns.                 *)
(***************************************************************************)
\* A JSON response after the matcher ran is the primary response.
ReturnedIsPrimary ==
    \A r \in Requests :
        (Done(r) /\ MatcherRan(r) /\ resp[r].json)
            => resp[r] \in PrimaryResponses(results[r])

\* A non-JSON response comes from an exception outside every try.
UnhandledOnly ==
    \A r \in Requests :
        (Done(r) /\ ~resp[r].json) =>
            \/ raised[r]
            \/ body[r].data = "list"
            \/ body[r].data = "object" /\ body[r].image = "number"

\* Step 1 rejects without touching the temp file.
ParseLeavesFile == [][\A r \in Requests : ParseJSON(r) => file' = file]_vars

====
